---------------------------- MODULE Spec2Model ----------------------------
(***************************************************************************)
(* A model of jspm's TraceMap (src/src/tracemap.ts) and of the helpers it  *)
(* uses from utils (src/unnamed/part_000).                                 *)
(*                                                                         *)
(* Strings are sequences of one-character strings, so that startsWith,     *)
(* slice, split and the default sort of keys are computed as the code      *)
(* computes them.  A JavaScript object used as a dictionary is a sequence  *)
(* of records [k |-> key, v |-> value] in insertion order, keys unique.    *)
(***************************************************************************)
EXTENDS Integers, Sequences, FiniteSets, TLC

VARIABLES
  baseUrl,    \* TraceMap._baseUrl
  imports,    \* TraceMap._map.imports
  scopes,     \* TraceMap._map.scopes
  depcache,   \* TraceMap._map.depcache
  nCalls,     \* the number of structural operations called on the handle
  resolved,   \* the last call of resolve: its arguments and its result
  env,        \* TraceMap._env
  c,          \* TraceMap._p.c: the counter of the gate
  q,          \* TraceMap._p.q: the resolvers of the operations waiting
  pc,         \* where each install-family call stands
  op,         \* each install-family call: its method and its packages
  running,    \* the package tasks of each call that have not finished
  taskFailed, \* whether a package task of the call has failed
  promise,    \* the promise (or the return) each call gave its caller
  tpc,        \* where the call of trace stands
  tmap,       \* trace: the map of the entry specifiers it returns
  trace,      \* trace: the Trace it fills and returns
  postOrder,  \* trace: the counter of the orders
  estate,     \* trace: where the doTrace of each entry specifier stands
  stack,      \* trace: the doTrace calls each entry is inside of
  analyzed,   \* trace: the calls of analyze made, by URL
  defaultStyle, \* utils.defaultStyle: the one object of the module
  mapStyle,   \* TraceMap.mapStyle of each handle: which object it refers to
  detected,   \* the object detectStyle returned to each handle
  maps,       \* TraceMap._map of each handle that is serialized
  returned    \* the last call of toString: its arguments and its text

mapVars == << baseUrl, imports, scopes, depcache, nCalls, resolved >>

traceVars == << tpc, tmap, trace, postOrder, estate, stack, analyzed >>

gateVars == << env, c, q, pc, op, running, taskFailed, promise >>

styleVars == << defaultStyle, mapStyle, detected, maps, returned >>

\* The fields no install-family operation of the model writes
gateFrame ==
  << baseUrl, scopes, depcache, nCalls, resolved, traceVars, styleVars >>

vars == << mapVars, gateVars, traceVars, styleVars >>

\* ------------------------------------------------------------------------
\* Strings
\* ------------------------------------------------------------------------

\* The characters the model's strings use, in UTF-16 code unit order.
CharOrder == << ".", "/", ":", "a", "b", "c", "d", "e", "f", "g", "h", "i",
                "j", "k", "l", "m", "n", "o", "p", "q", "r", "s", "t", "u",
                "v", "w", "x", "y", "z" >>

CharCode(ch) == CHOOSE i \in 1..Len(CharOrder) : CharOrder[i] = ch

\* String.prototype.startsWith
StartsWith(s, p) == Len(p) <= Len(s) /\ SubSeq(s, 1, Len(p)) = p

\* String.prototype.endsWith
EndsWith(s, p) == Len(p) <= Len(s) /\ SubSeq(s, Len(s) - Len(p) + 1, Len(s)) = p

\* String.prototype.slice(from), from >= 0 counted from 0 as in JavaScript
Slice(s, from) == SubSeq(s, from + 1, Len(s))

\* String.prototype.slice(0, to)
SliceTo(s, to) == SubSeq(s, 1, to)

\* s.indexOf('/') counted from 0, -1 when absent
IndexOfSlash(s) ==
  IF \E i \in 1..Len(s) : s[i] = "/"
  THEN (CHOOSE i \in 1..Len(s) : s[i] = "/" /\ \A j \in 1..(i-1) : s[j] # "/") - 1
  ELSE -1

\* s.lastIndexOf('/') counted from 0, -1 when absent
LastIndexOfSlash(s) ==
  IF \E i \in 1..Len(s) : s[i] = "/"
  THEN (CHOOSE i \in 1..Len(s) : s[i] = "/" /\ \A j \in (i+1)..Len(s) : s[j] # "/") - 1
  ELSE -1

\* s.split('/'): the segments between the slashes, empty ones included.
\* The recursion is on the value of the rest of the string (the only
\* element of a set), so that the rest is computed once.
RECURSIVE SplitSlash(_)
SplitSlash(s) ==
  LET i == IndexOfSlash(s)
  IN  IF i = -1 THEN << s >>
      ELSE << SliceTo(s, i) >> \o
             (CHOOSE r \in { SplitSlash(rest) : rest \in { Slice(s, i + 1) } } : TRUE)

\* segs.join('/')
RECURSIVE JoinSlash(_)
JoinSlash(segs) ==
  IF Len(segs) = 0 THEN << >>
  ELSE IF Len(segs) = 1 THEN segs[1]
  ELSE segs[1] \o << "/" >> \o JoinSlash(Tail(segs))

\* '../'.repeat(n)
RECURSIVE RepeatDotDot(_)
RepeatDotDot(n) ==
  IF n <= 0 THEN << >> ELSE << ".", ".", "/" >> \o RepeatDotDot(n - 1)

\* a < b in the order Array.prototype.sort() uses without a comparator
RECURSIVE StrLess(_, _)
StrLess(a, b) ==
  IF Len(b) = 0 THEN FALSE
  ELSE IF Len(a) = 0 THEN TRUE
  ELSE IF a[1] = b[1] THEN StrLess(Tail(a), Tail(b))
  ELSE CharCode(a[1]) < CharCode(b[1])

\* ------------------------------------------------------------------------
\* URLs (the WHATWG URL class, for http: and file: URLs without search
\* or hash)
\* ------------------------------------------------------------------------

HttpScheme == << "h", "t", "t", "p", ":", "/", "/" >>
FileScheme == << "f", "i", "l", "e", ":", "/", "/" >>

\* The path with its "." and ".." segments resolved; path starts with "/".
RECURSIVE DotFold(_, _)
DotFold(segs, out) ==
  IF Len(segs) = 0 THEN out
  ELSE LET s    == segs[1]
           last == Len(segs) = 1
           pop  == IF Len(out) = 0 THEN out ELSE SubSeq(out, 1, Len(out) - 1)
           next == IF s = << ".", "." >>
                   THEN IF last THEN Append(pop, << >>) ELSE pop
                   ELSE IF s = << "." >>
                   THEN IF last THEN Append(out, << >>) ELSE out
                   ELSE Append(out, s)
       IN  CHOOSE r \in { DotFold(t, o) : t \in { Tail(segs) }, o \in { next } } : TRUE

RemoveDotSegments(path) ==
  CHOOSE r \in { << "/" >> \o JoinSlash(folded) :
                   folded \in { DotFold(segs, << >>) :
                                  segs \in { SplitSlash(Slice(path, 1)) } } } : TRUE

\* new URL(s) succeeds: s carries its own scheme
HasScheme(s) == StartsWith(s, HttpScheme) \/ StartsWith(s, FileScheme)

\* new URL(s) for a string with a scheme
ParseAbsolute(s) ==
  LET scheme == IF StartsWith(s, HttpScheme) THEN HttpScheme ELSE FileScheme
      rest   == Slice(s, Len(scheme))
      i      == IndexOfSlash(rest)
  IN  [ protocol |-> SliceTo(scheme, Len(scheme) - 2),
        host     |-> IF i = -1 THEN rest ELSE SliceTo(rest, i),
        pathname |-> IF i = -1 THEN << "/" >> ELSE RemoveDotSegments(Slice(rest, i)) ]

\* new URL(s, base)
NewURL(s, base) ==
  IF HasScheme(s) THEN ParseAbsolute(s)
  ELSE IF Len(s) = 0 THEN base
  ELSE IF s[1] = "/" THEN [ base EXCEPT !.pathname = RemoveDotSegments(s) ]
  ELSE [ base EXCEPT !.pathname =
           RemoveDotSegments(
             SliceTo(base.pathname, LastIndexOfSlash(base.pathname) + 1) \o s) ]

\* url.href
Href(u) == u.protocol \o << "/", "/" >> \o u.host \o u.pathname

\* url.origin: "null" for a file: URL
Origin(u) ==
  IF u.protocol = << "f", "i", "l", "e", ":" >>
  THEN << "n", "u", "l", "l" >>
  ELSE u.protocol \o << "/", "/" >> \o u.host

\* ------------------------------------------------------------------------
\* Dictionaries: JavaScript objects with string keys, in insertion order
\* ------------------------------------------------------------------------

\* The value null of an entry (a blocked specifier)
Null == << "NULL" >>

\* Object.keys(m)
Keys(m) == [ i \in 1..Len(m) |-> m[i].k ]

\* k in m
Has(m, k) == \E i \in 1..Len(m) : m[i].k = k

IndexOfKey(m, k) == CHOOSE i \in 1..Len(m) : m[i].k = k

\* m[k], for a key of m
Get(m, k) == m[IndexOfKey(m, k)].v

\* m[k] = v: an existing key keeps its place, a new key goes last
Put(m, k, v) ==
  IF Has(m, k)
  THEN [ m EXCEPT ![IndexOfKey(m, k)] = [ k |-> k, v |-> v ] ]
  ELSE Append(m, [ k |-> k, v |-> v ])

\* delete m[k]
Del(m, k) ==
  IF Has(m, k)
  THEN LET i == IndexOfKey(m, k)
       IN  SubSeq(m, 1, i - 1) \o SubSeq(m, i + 1, Len(m))
  ELSE m

\* Object.assign(m, src)
RECURSIVE Assign(_, _)
Assign(m, src) ==
  IF Len(src) = 0 THEN m
  ELSE Assign(Put(m, src[1].k, src[1].v), Tail(src))

\* The key that Array.prototype.sort() puts first
MinKey(m) ==
  m[CHOOSE i \in 1..Len(m) : \A j \in 1..Len(m) : ~StrLess(m[j].k, m[i].k)].k

\* An alphabetize whose loop stops one key early, so that the entry of the
\* last key is lost: the fault C11 excludes
RECURSIVE alphabetizeButLast(_)
alphabetizeButLast(obj) ==
  IF Len(obj) <= 1 THEN << >>
  ELSE LET k == MinKey(obj)
       IN  << [ k |-> k, v |-> Get(obj, k) ] >> \o alphabetizeButLast(Del(obj, k))

\* alphabetize(obj): a new object with the keys in sorted order
RECURSIVE alphabetize(_)
alphabetize(obj) ==
  IF Len(obj) = 0 THEN << >>
  ELSE LET k == MinKey(obj)
       IN  << [ k |-> k, v |-> Get(obj, k) ] >> \o alphabetize(Del(obj, k))

\* isURL(specifier)
isURL(specifier) == StartsWith(specifier, << "/" >>) \/ HasScheme(specifier)

\* isPlain(specifier)
isPlain(specifier) ==
  IF StartsWith(specifier, << ".", "/" >>) \/ StartsWith(specifier, << ".", ".", "/" >>)
  THEN FALSE
  ELSE ~isURL(specifier)

\* ------------------------------------------------------------------------
\* resolve
\* ------------------------------------------------------------------------

\* getScopeMatches(parentUrl, scopes, baseUrl): the keys of the scopes whose
\* URL the referrer's href starts with, the longest scope URL first (scopes
\* of equal length in key order).
ScopeHref(scope, bUrl) == Href(NewURL(scope, bUrl))

ScopeActive(scope, parentUrl, bUrl) ==
  StartsWith(Href(parentUrl), ScopeHref(scope, bUrl))

RECURSIVE LongestFirst(_, _)
LongestFirst(keys, bUrl) ==
  IF Len(keys) = 0 THEN << >>
  ELSE LET i == CHOOSE i \in 1..Len(keys) :
                  /\ \A j \in 1..Len(keys) :
                       Len(ScopeHref(keys[j], bUrl)) <= Len(ScopeHref(keys[i], bUrl))
                  /\ \A j \in 1..(i-1) :
                       Len(ScopeHref(keys[j], bUrl)) < Len(ScopeHref(keys[i], bUrl))
       IN  << keys[i] >> \o
           LongestFirst(SubSeq(keys, 1, i - 1) \o SubSeq(keys, i + 1, Len(keys)), bUrl)

getScopeMatches(parentUrl, scopesMap, bUrl) ==
  LongestFirst(SelectSeq(Keys(scopesMap),
                         LAMBDA scope : ScopeActive(scope, parentUrl, bUrl)), bUrl)

\* A key of m matches the specifier: it is the specifier, or it ends in "/"
\* and the specifier starts with it.
KeyMatches(key, specifier) ==
  key = specifier \/ (EndsWith(key, << "/" >>) /\ StartsWith(specifier, key))

\* getMapMatch(specifier, m): the specifier itself when it is a key, else
\* the longest matching key ending in "/"; << >> (undefined) when none.
NoMatch == << >>

getMapMatch(specifier, m) ==
  IF Has(m, specifier) THEN specifier
  ELSE LET cands == { i \in 1..Len(m) : KeyMatches(m[i].k, specifier) }
       IN  IF cands = {} THEN NoMatch
           ELSE m[CHOOSE i \in cands : \A j \in cands : Len(m[j].k) <= Len(m[i].k)].k

ResolvedUrl(u) == [ kind |-> "url", url |-> u ]
ResolvedNull == [ kind |-> "null" ]
ModuleNotFound == [ kind |-> "error", code |-> "MODULE_NOT_FOUND" ]

\* The target of the matched key, joined with the rest of the specifier
MapTarget(m, mapMatch, specifier, bUrl) ==
  LET target == Get(m, mapMatch)
  IN  IF target = Null THEN ResolvedNull
      ELSE ResolvedUrl(NewURL(target \o Slice(specifier, Len(mapMatch)), bUrl))

\* A loop that passes over a scope whose match is blocked (null) and goes
\* on to the next scope: the fault C7 excludes
RECURSIVE ResolveSkippingNull(_, _, _, _, _)
ResolveSkippingNull(scopeMatches, specifier, impMap, scopesMap, bUrl) ==
  IF Len(scopeMatches) = 0
  THEN LET mapMatch == getMapMatch(specifier, impMap)
       IN  IF Len(mapMatch) > 0
           THEN MapTarget(impMap, mapMatch, specifier, bUrl)
           ELSE ModuleNotFound
  ELSE LET inner    == Get(scopesMap, scopeMatches[1])
           mapMatch == getMapMatch(specifier, inner)
       IN  IF Len(mapMatch) > 0 /\ Get(inner, mapMatch) # Null
           THEN MapTarget(inner, mapMatch, specifier, bUrl)
           ELSE ResolveSkippingNull(Tail(scopeMatches), specifier, impMap, scopesMap, bUrl)

\* A loop that ends in null, not in an error, when nothing matches: the
\* fault C8 excludes
RECURSIVE ResolveNullOnMiss(_, _, _, _, _)
ResolveNullOnMiss(scopeMatches, specifier, impMap, scopesMap, bUrl) ==
  IF Len(scopeMatches) = 0
  THEN LET mapMatch == getMapMatch(specifier, impMap)
       IN  IF Len(mapMatch) > 0
           THEN MapTarget(impMap, mapMatch, specifier, bUrl)
           ELSE ResolvedNull
  ELSE LET inner    == Get(scopesMap, scopeMatches[1])
           mapMatch == getMapMatch(specifier, inner)
       IN  IF Len(mapMatch) > 0
           THEN MapTarget(inner, mapMatch, specifier, bUrl)
           ELSE ResolveNullOnMiss(Tail(scopeMatches), specifier, impMap, scopesMap, bUrl)

\* The loop of resolve over the scope matches, then the top-level imports
RECURSIVE ResolveInScopes(_, _, _, _, _)
ResolveInScopes(scopeMatches, specifier, impMap, scopesMap, bUrl) ==
  IF Len(scopeMatches) = 0
  THEN LET mapMatch == getMapMatch(specifier, impMap)
       IN  IF Len(mapMatch) > 0
           THEN MapTarget(impMap, mapMatch, specifier, bUrl)
           ELSE ModuleNotFound
  ELSE LET inner    == Get(scopesMap, scopeMatches[1])
           mapMatch == getMapMatch(specifier, inner)
       IN  IF Len(mapMatch) > 0
           THEN MapTarget(inner, mapMatch, specifier, bUrl)
           ELSE ResolveInScopes(Tail(scopeMatches), specifier, impMap, scopesMap, bUrl)

\* resolve(specifier, parentUrl, map, baseUrl)
resolve(specifier, parentUrl, impMap, scopesMap, bUrl) ==
  IF ~isPlain(specifier) THEN ResolvedUrl(NewURL(specifier, parentUrl))
  ELSE ResolveInScopes(getScopeMatches(parentUrl, scopesMap, bUrl),
                       specifier, impMap, scopesMap, bUrl)

\* ------------------------------------------------------------------------
\* The map of a TraceMap and its structural operations.  A handle is the
\* record [baseUrl, imports, scopes, depcache] of the fields _baseUrl and
\* _map.
\* ------------------------------------------------------------------------

\* utils.baseUrl under Node.js: the file: URL of the working directory
envBaseUrl == ParseAbsolute(<< "f", "i", "l", "e", ":", "/", "/", "/", "w", "/" >>)

\* The index of the last "/" of the prefix the two paths share, from 0
SharedBaseIndex(baseUrlPath, urlPath) ==
  LET minLen == IF Len(baseUrlPath) < Len(urlPath) THEN Len(baseUrlPath) ELSE Len(urlPath)
      cand   == { i \in 1..minLen : /\ urlPath[i] = "/"
                                    /\ \A j \in 1..i : baseUrlPath[j] = urlPath[j] }
  IN  IF cand = {} THEN -1
      ELSE (CHOOSE i \in cand : \A j \in cand : j <= i) - 1

\* TraceMap._baseUrlRelative(url), with this._baseUrl = bUrl
baseUrlRelative(url, bUrl) ==
  LET origin      == Origin(url)
      href        == Href(url)
      baseUrlHref == Href(bUrl)
  IN  IF StartsWith(href, baseUrlHref) THEN Slice(href, Len(baseUrlHref))
      ELSE IF \/ origin # Origin(bUrl)
              \/ ~StartsWith(href, origin)
              \/ ~StartsWith(baseUrlHref, origin)
      THEN href
      ELSE LET sharedBaseIndex == SharedBaseIndex(bUrl.pathname, url.pathname)
           IN  RepeatDotDot(Len(SplitSlash(Slice(bUrl.pathname, sharedBaseIndex + 1))))
               \o Slice(url.pathname, sharedBaseIndex + 1)

\* TraceMap.set(map)
set(tm, map) ==
  [ tm EXCEPT !.imports = map.imports, !.scopes = map.scopes,
              !.depcache = map.depcache ]

\* The loop of extend over the scopes of map when overrideScopes is false
RECURSIVE ExtendScopes(_, _)
ExtendScopes(scopesMap, src) ==
  IF Len(src) = 0 THEN scopesMap
  ELSE LET scope == src[1].k
           old   == IF Has(scopesMap, scope) THEN Get(scopesMap, scope) ELSE << >>
       IN  ExtendScopes(Put(scopesMap, scope, Assign(old, src[1].v)), Tail(src))

\* TraceMap.extend(map, overrideScopes)
extend(tm, map, overrideScopes) ==
  [ tm EXCEPT !.imports  = Assign(tm.imports, map.imports),
              !.scopes   = IF overrideScopes THEN Assign(tm.scopes, map.scopes)
                           ELSE ExtendScopes(tm.scopes, map.scopes),
              !.depcache = Assign(tm.depcache, map.depcache) ]

\* The first loop of rebase: the top-level imports
RECURSIVE RebaseImports(_, _, _, _)
RebaseImports(keys, impMap, oldBaseUrl, newUrl) ==
  IF Len(keys) = 0 THEN impMap
  ELSE LET target == Get(impMap, keys[1])
       IN  RebaseImports(Tail(keys),
             IF target # Null
             THEN Put(impMap, keys[1], baseUrlRelative(NewURL(target, oldBaseUrl), newUrl))
             ELSE impMap,
             oldBaseUrl, newUrl)

\* The inner loop of the second loop of rebase: the names of one scope,
\* whose rebased targets are written to the top-level imports
RECURSIVE RebaseScopeNames(_, _, _, _)
RebaseScopeNames(scopeImports, impMap, oldBaseUrl, newUrl) ==
  IF Len(scopeImports) = 0 THEN impMap
  ELSE LET name   == scopeImports[1].k
           target == scopeImports[1].v
       IN  RebaseScopeNames(Tail(scopeImports),
             IF target # Null
             THEN Put(impMap, name, baseUrlRelative(NewURL(target, oldBaseUrl), newUrl))
             ELSE impMap,
             oldBaseUrl, newUrl)

\* The second loop of rebase: every scope
RECURSIVE RebaseScopes(_, _, _, _)
RebaseScopes(scopesMap, impMap, oldBaseUrl, newUrl) ==
  IF Len(scopesMap) = 0 THEN impMap
  ELSE RebaseScopes(Tail(scopesMap),
         RebaseScopeNames(scopesMap[1].v, impMap, oldBaseUrl, newUrl),
         oldBaseUrl, newUrl)

\* A rebase of a list that keeps only the specifiers it rewrites (filter
\* where the code has map), dropping the plain ones: the fault C18 excludes
RebaseListFiltered(list, oldBaseUrl, newUrl) ==
  LET kept == SelectSeq(list, LAMBDA specifier : ~isPlain(specifier))
  IN  [ i \in 1..Len(kept) |-> baseUrlRelative(NewURL(kept[i], oldBaseUrl), newUrl) ]

\* One list of the depcache, its specifiers rebased unless plain
RebaseList(list, oldBaseUrl, newUrl) ==
  [ i \in 1..Len(list) |->
      IF isPlain(list[i]) THEN list[i]
      ELSE baseUrlRelative(NewURL(list[i], oldBaseUrl), newUrl) ]

\* The third loop of rebase: the depcache, built anew
RECURSIVE RebaseDepcache(_, _, _, _)
RebaseDepcache(dc, newDepcache, oldBaseUrl, newUrl) ==
  IF Len(dc) = 0 THEN newDepcache
  ELSE RebaseDepcache(Tail(dc),
         Put(newDepcache,
             baseUrlRelative(NewURL(dc[1].k, oldBaseUrl), newUrl),
             RebaseList(dc[1].v, oldBaseUrl, newUrl)),
         oldBaseUrl, newUrl)

\* The new base URL of rebase: a directory
RebasedUrl(newBaseUrl) ==
  LET u == NewURL(newBaseUrl, envBaseUrl)
  IN  IF EndsWith(u.pathname, << "/" >>) THEN u
      ELSE [ u EXCEPT !.pathname = u.pathname \o << "/" >> ]

\* TraceMap.rebase(newBaseUrl)
rebase(tm, newBaseUrl) ==
  LET oldBaseUrl == tm.baseUrl
      newUrl     == RebasedUrl(newBaseUrl)
      imports1   == RebaseImports(Keys(tm.imports), tm.imports, oldBaseUrl, newUrl)
      imports2   == RebaseScopes(tm.scopes, imports1, oldBaseUrl, newUrl)
  IN  [ baseUrl  |-> newUrl,
        imports  |-> imports2,
        scopes   |-> tm.scopes,
        depcache |-> RebaseDepcache(tm.depcache, << >>, oldBaseUrl, newUrl) ]

\* The key of the origin-root scope that flatten hoists a scope into:
\* "/" on the origin of the base URL, the scope's origin with "/" on
\* another origin, << >> (undefined) for a file: scope.
ScopeBaseUrl(scopeUrl, bUrl) ==
  IF scopeUrl.protocol = << "f", "i", "l", "e", ":" >> THEN << >>
  ELSE IF Origin(scopeUrl) = Origin(bUrl) /\ StartsWith(Href(scopeUrl), Origin(bUrl))
  THEN << "/" >>
  ELSE IF StartsWith(Href(scopeUrl), Origin(scopeUrl))
  THEN Origin(scopeUrl) \o << "/" >>
  ELSE << >>

\* !existing || new URL(existing, baseUrl).href === targetUrl.href
CanHoist(scopeBase, name, targetUrl, bUrl) ==
  \/ ~Has(scopeBase, name)
  \/ Get(scopeBase, name) = Null
  \/ Get(scopeBase, name) = << >>
  \/ Href(NewURL(Get(scopeBase, name), bUrl)) = Href(targetUrl)

\* The loop of flatten over the names of one scope.  st is the record
\* [scopes, scopeBase, scopeImports, flattenedAll] of the loop's variables;
\* same tells that scopeBase and scopeImports are one object (the scope is
\* its own origin-root scope), so that a write to one is a write to both.
\* Once a name is hoisted, the map holds alphabetize(scopeBase), a new
\* object, under scopeBaseUrl.
RECURSIVE FlattenNames(_, _, _, _, _, _)
FlattenNames(names, st, scope, scopeBaseUrl, same, bUrl) ==
  IF Len(names) = 0 THEN st
  ELSE LET name      == names[1]
           target    == Get(st.scopeImports, name)
           targetUrl == NewURL(target, bUrl)
           rel       == baseUrlRelative(targetUrl, bUrl)
           base1     == IF same THEN Del(Put(st.scopeBase, name, rel), name)
                        ELSE Put(st.scopeBase, name, rel)
           imports1  == IF same THEN base1 ELSE Del(st.scopeImports, name)
           scopes1   == IF same THEN st.scopes ELSE Put(st.scopes, scope, imports1)
       IN  IF target = Null
           THEN FlattenNames(Tail(names), st, scope, scopeBaseUrl, same, bUrl)
           ELSE IF CanHoist(st.scopeBase, name, targetUrl, bUrl)
           THEN FlattenNames(Tail(names),
                  [ scopes       |-> Put(scopes1, scopeBaseUrl, alphabetize(base1)),
                    scopeBase    |-> base1,
                    scopeImports |-> imports1,
                    flattenedAll |-> st.flattenedAll ],
                  scope, scopeBaseUrl, same, bUrl)
           ELSE FlattenNames(Tail(names), [ st EXCEPT !.flattenedAll = FALSE ],
                  scope, scopeBaseUrl, same, bUrl)

\* One round of the loop of flatten over the scopes
FlattenScope(scopesMap, scope, bUrl) ==
  LET scopeBaseUrl == ScopeBaseUrl(NewURL(scope, bUrl), bUrl)
      same         == scope = scopeBaseUrl /\ Has(scopesMap, scopeBaseUrl)
      st0          == [ scopes       |-> scopesMap,
                        scopeBase    |-> IF Has(scopesMap, scopeBaseUrl)
                                         THEN Get(scopesMap, scopeBaseUrl) ELSE << >>,
                        scopeImports |-> Get(scopesMap, scope),
                        flattenedAll |-> TRUE ]
      st           == FlattenNames(Keys(st0.scopeImports), st0, scope, scopeBaseUrl,
                                   same, bUrl)
  IN  IF scopeBaseUrl = << >> THEN scopesMap
      ELSE IF st.flattenedAll THEN Del(st.scopes, scope)
      ELSE st.scopes

RECURSIVE FlattenScopes(_, _, _)
FlattenScopes(keys, scopesMap, bUrl) ==
  IF Len(keys) = 0 THEN scopesMap
  ELSE FlattenScopes(Tail(keys), FlattenScope(scopesMap, keys[1], bUrl), bUrl)

\* The last loop of flatten: the empty lists of the depcache are deleted
PruneDepcache(dc) == SelectSeq(dc, LAMBDA e : Len(e.v) # 0)

\* TraceMap.flatten()
flatten(tm) ==
  [ tm EXCEPT !.scopes   = FlattenScopes(Keys(tm.scopes), tm.scopes, tm.baseUrl),
              !.depcache = PruneDepcache(tm.depcache) ]

\* utils.sort(map) as TraceMap.sort() applies it
sort(tm) ==
  LET sortedScopes == alphabetize(tm.scopes)
  IN  [ tm EXCEPT !.imports  = alphabetize(tm.imports),
                  !.scopes   = [ i \in 1..Len(sortedScopes) |->
                                   [ k |-> sortedScopes[i].k,
                                     v |-> alphabetize(sortedScopes[i].v) ] ],
                  !.depcache = alphabetize(tm.depcache) ]

\* ------------------------------------------------------------------------
\* The inputs of the structural operations and of resolve
\* ------------------------------------------------------------------------

Entry(k, v) == [ k |-> k, v |-> v ]

KeyA      == << "a" >>
KeyB      == << "b" >>
KeyC      == << "c" >>
KeyADir   == << "a", "/" >>
SpecASub  == << "a", "/", "x" >>
SpecRel   == << ".", "/", "c" >>

TargetA   == << ".", "/", "a" >>
TargetB   == << ".", "/", "b" >>
TargetSA  == << ".", "/", "s", "/", "a" >>
TargetUp  == << ".", ".", "/", "c" >>
TargetDir == << ".", "/", "l", "/" >>
TargetAbs == << "/", "s", "/", "b" >>
TargetY   == << "h", "t", "t", "p", ":", "/", "/", "y", "/", "l" >>

ScopeS    == << ".", "/", "s", "/" >>
ScopeST   == << ".", "/", "s", "/", "t", "/" >>
ScopeRoot == << "/" >>
ScopeP    == << "/", "p", "/" >>
ScopeY    == << "h", "t", "t", "p", ":", "/", "/", "y", "/", "s", "/" >>

BaseA     == << "h", "t", "t", "p", ":", "/", "/", "x", "/", "p", "/", "a", "/" >>
BaseB     == << "h", "t", "t", "p", ":", "/", "/", "x", "/", "p", "/", "b", "/" >>
BaseQ     == << "h", "t", "t", "p", ":", "/", "/", "x", "/", "p" >>
BaseFile  == << "f", "i", "l", "e", ":", "/", "/", "/", "w", "/" >>

\* The base URLs a handle is constructed with or rebased to
BaseUrls == { BaseA, BaseB, BaseQ, BaseFile }

EmptyMap == [ imports |-> << >>, scopes |-> << >>, depcache |-> << >> ]

\* A map with a blocked import and two nested scopes
MapNested ==
  [ imports  |-> << Entry(KeyB, Null), Entry(KeyA, TargetA) >>,
    scopes   |-> << Entry(ScopeS, << Entry(KeyB, TargetB), Entry(KeyA, TargetSA) >>),
                    Entry(ScopeST, << Entry(KeyA, Null) >>) >>,
    depcache |-> << Entry(TargetA, << KeyB, TargetB >>) >> ]

\* A map with a package-path import, the origin-root scope and a scope
\* above the base URL
MapRooted ==
  [ imports  |-> << Entry(KeyB, TargetUp), Entry(KeyADir, TargetDir) >>,
    scopes   |-> << Entry(ScopeRoot, << Entry(KeyA, TargetAbs) >>),
                    Entry(ScopeP, << Entry(KeyB, TargetB), Entry(KeyA, TargetA) >>) >>,
    depcache |-> << Entry(TargetUp, << >>), Entry(TargetB, << TargetA, KeyA >>) >> ]

\* A map whose targets and scope are on another origin
MapRemote ==
  [ imports  |-> << Entry(KeyA, TargetY) >>,
    scopes   |-> << Entry(ScopeY, << Entry(KeyB, TargetY) >>) >>,
    depcache |-> << >> ]

\* A map without scopes: a blocked import, a package-path import and a
\* depcache list with a plain and a relative specifier
MapFlat ==
  [ imports  |-> << Entry(KeyB, Null), Entry(KeyA, TargetA), Entry(KeyADir, TargetDir) >>,
    scopes   |-> << >>,
    depcache |-> << Entry(TargetA, << KeyB, TargetB >>) >> ]

\* The maps a handle is constructed from, set to or extended with
InputMaps == { EmptyMap, MapNested, MapRooted, MapRemote, MapFlat }

\* The specifiers resolve is called with
Specifiers == { KeyA, KeyB, KeyC, SpecASub, SpecRel }

\* The referrers resolve is called with: modules under the base URL, under
\* its scopes, and on another origin
ParentUrls(bUrl) ==
  { NewURL(<< "m" >>, bUrl),
    NewURL(<< "s", "/", "m" >>, bUrl),
    NewURL(<< "s", "/", "t", "/", "m" >>, bUrl),
    NewURL(<< "h", "t", "t", "p", ":", "/", "/", "y", "/", "s", "/", "m" >>, bUrl) }

\* The bound on the structural operations called on one handle
MaxCalls == 2

\* ------------------------------------------------------------------------
\* The handle as a state machine: the structural operations and resolve
\* ------------------------------------------------------------------------

\* The bound on the install-family calls made on one handle
MaxOps == 3

Ops == 1..MaxOps

\* new (Pool(1)): the number of slots of the gate
PoolN == 1

\* The packages the install-family calls name
PackageLists == { << >>, << KeyA >>, << KeyA, KeyB >> }

\* The argument left out of a call
NoArg == << << "NOARG" >> >>

\* The environments installEnv is called with
Envs == { << "node" >> }

NoOp == [ kind |-> "none", packages |-> << >> ]

\* The fields of a handle no install-family call has been made on
GateIdle ==
  /\ env = << "browser", "production" >>
  /\ c = 0
  /\ q = << >>
  /\ pc = [ o \in Ops |-> "idle" ]
  /\ op = [ o \in Ops |-> NoOp ]
  /\ running = [ o \in Ops |-> 0 ]
  /\ taskFailed = [ o \in Ops |-> FALSE ]
  /\ promise = [ o \in Ops |-> "none" ]

\* The entry specifiers trace is called with
EntryLists ==
  { << KeyA >>, << KeyA, KeyB >>, << KeyA, KeyA >> }

\* The bound on the specifiers analyze returns for one module
MaxDeps == 2

\* The lists of specifiers analyze returns: no specifier twice
DepLists ==
  { l \in UNION { [ 1..n -> { KeyA, KeyB, KeyC } ] : n \in 0..MaxDeps } :
      \A i, j \in 1..Len(l) : i # j => l[i] # l[j] }

\* The bound on the depth of the doTrace calls of one entry
MaxDepth == 4

\* The value NaN of a size or an order not yet known
NaN == -1

\* The fields of the model of trace when trace has not been called
TraceIdle ==
  /\ tpc = "idle"
  /\ tmap = << >>
  /\ trace = << >>
  /\ postOrder = 0
  /\ estate = << >>
  /\ stack = << >>
  /\ analyzed = << >>

\* The most handles that are serialized side by side
MaxHandles == 2

Handles == 1..MaxHandles

\* The characters of the styles: os.EOL is "\n", or "\r\n" on Windows
LF == "\n"

CR == "\r"

TAB == "\t"

EOLs == { << LF >>, << CR, LF >> }

\* utils.defaultStyle as the module defines it on a platform with EOL eol
DefaultStyleOn(eol) ==
  [ tab |-> << " ", " " >>, newline |-> eol, trailingNewline |-> eol,
    indent |-> << >>, quote |-> << "\"" >> ]

\* No style object yet: the value of a handle that is not constructed
NoStyle ==
  [ tab |-> << >>, newline |-> << >>, trailingNewline |-> << >>,
    indent |-> << >>, quote |-> << >> ]

NotReturned == [ kind |-> "none" ]

\* The fields of the model of toString when no handle is serialized
StyleIdle ==
  /\ defaultStyle = DefaultStyleOn(<< LF >>)
  /\ mapStyle = [ h \in Handles |-> "unset" ]
  /\ detected = [ h \in Handles |-> NoStyle ]
  /\ maps = [ h \in Handles |-> EmptyMap ]
  /\ returned = NotReturned

\* The handle as the record the operations take
Handle ==
  [ baseUrl |-> baseUrl, imports |-> imports, scopes |-> scopes,
    depcache |-> depcache ]

NotResolved == [ kind |-> "none" ]

\* The handle becomes tm by a structural operation
Becomes(tm) ==
  /\ nCalls < MaxCalls
  /\ nCalls' = nCalls + 1
  /\ baseUrl' = tm.baseUrl
  /\ imports' = tm.imports
  /\ scopes' = tm.scopes
  /\ depcache' = tm.depcache
  /\ resolved' = NotResolved
  /\ UNCHANGED << gateVars, traceVars, styleVars >>

\* new TraceMap(baseUrl, map): extend(map, true) on the empty map
InitMap ==
  /\ \E b \in BaseUrls : baseUrl = RebasedUrl(b)
  /\ \E m \in InputMaps :
       LET tm == extend([ baseUrl |-> envBaseUrl, imports |-> << >>,
                          scopes |-> << >>, depcache |-> << >> ], m, TRUE)
       IN  imports = tm.imports /\ scopes = tm.scopes /\ depcache = tm.depcache
  /\ nCalls = 0
  /\ resolved = NotResolved
  /\ GateIdle
  /\ TraceIdle
  /\ StyleIdle

SetCall == \E m \in InputMaps : Becomes(set(Handle, m))

ExtendCall ==
  \E m \in InputMaps, overrideScopes \in BOOLEAN :
    Becomes(extend(Handle, m, overrideScopes))

RebaseCall == \E b \in BaseUrls : Becomes(rebase(Handle, b))

FlattenCall == Becomes(flatten(Handle))

SortCall == Becomes(sort(Handle))

\* TraceMap.resolve(specifier, parentUrl)
ResolveCall ==
  /\ \E specifier \in Specifiers, parentUrl \in ParentUrls(baseUrl) :
       resolved' = [ kind      |-> "call",
                     specifier |-> specifier,
                     parentUrl |-> parentUrl,
                     result    |-> resolve(specifier, parentUrl, imports, scopes, baseUrl) ]
  /\ UNCHANGED << baseUrl, imports, scopes, depcache, nCalls >>
  /\ UNCHANGED << gateVars, traceVars, styleVars >>

\* The structural operations called on a handle in any order
NextMap ==
  \/ SetCall
  \/ ExtendCall
  \/ RebaseCall
  \/ FlattenCall
  \/ SortCall

SpecMap == InitMap /\ [][NextMap]_vars

\* resolve called on a handle between calls of extend
NextResolve ==
  \/ ExtendCall
  \/ ResolveCall

SpecResolve == InitMap /\ [][NextResolve]_vars

\* ------------------------------------------------------------------------
\* Claims about resolve
\* ------------------------------------------------------------------------

\* The scopes (by index) that are active for the referrer and hold a key
\* matching the specifier
MatchingScopes(specifier, parentUrl) ==
  { i \in 1..Len(scopes) :
      /\ ScopeActive(scopes[i].k, parentUrl, baseUrl)
      /\ \E j \in 1..Len(scopes[i].v) : KeyMatches(scopes[i].v[j].k, specifier) }

\* The most specific of them: no other has a longer URL
MostSpecific(specifier, parentUrl) ==
  { i \in MatchingScopes(specifier, parentUrl) :
      \A j \in MatchingScopes(specifier, parentUrl) :
        Len(ScopeHref(scopes[j].k, baseUrl)) <= Len(ScopeHref(scopes[i].k, baseUrl)) }

ImportsMatch(specifier) ==
  \E j \in 1..Len(imports) : KeyMatches(imports[j].k, specifier)

BareCall == resolved.kind = "call" /\ isPlain(resolved.specifier)

\* C7: for a bare specifier resolve returns what the most specific active
\* scope with a matching key gives, a null target included; the top-level
\* imports give the result only when no active scope has a matching key.
C7_ScopePrecedence ==
  BareCall =>
    LET sp   == resolved.specifier
        best == MostSpecific(sp, resolved.parentUrl)
    IN  IF best # {}
        THEN \E i \in best :
               resolved.result =
                 MapTarget(scopes[i].v, getMapMatch(sp, scopes[i].v), sp, baseUrl)
        ELSE ImportsMatch(sp) =>
               resolved.result =
                 MapTarget(imports, getMapMatch(sp, imports), sp, baseUrl)

\* C7 witness: a referrer inside two nested scopes; the inner scope blocks
\* the specifier (null) while the outer scope and the top-level imports map
\* it, and resolve returned null.
C7_Witness ==
  /\ BareCall
  /\ resolved.result = ResolvedNull
  /\ Cardinality(MatchingScopes(resolved.specifier, resolved.parentUrl)) >= 2
  /\ \E i \in MatchingScopes(resolved.specifier, resolved.parentUrl) :
       Get(scopes[i].v, getMapMatch(resolved.specifier, scopes[i].v)) # Null
  /\ ImportsMatch(resolved.specifier)
  /\ Get(imports, getMapMatch(resolved.specifier, imports)) # Null

\* The target of the entry that wins for the specifier is null
WinnerBlocked(specifier, parentUrl) ==
  LET best == MostSpecific(specifier, parentUrl)
  IN  IF best # {}
      THEN \E i \in best :
             Get(scopes[i].v, getMapMatch(specifier, scopes[i].v)) = Null
      ELSE /\ ImportsMatch(specifier)
           /\ Get(imports, getMapMatch(specifier, imports)) = Null

\* C8: for a bare specifier resolve returns null exactly when the winning
\* entry's target is null, and fails, with code MODULE_NOT_FOUND, exactly
\* when no active scope and no top-level entry matches the specifier.
C8_NullAndNotFound ==
  BareCall =>
    LET sp       == resolved.specifier
        anyMatch == MatchingScopes(sp, resolved.parentUrl) # {} \/ ImportsMatch(sp)
    IN  /\ (resolved.result.kind = "error") <=> ~anyMatch
        /\ resolved.result.kind = "error" => resolved.result.code = "MODULE_NOT_FOUND"
        /\ (resolved.result.kind = "null") <=> WinnerBlocked(sp, resolved.parentUrl)

\* C8 witness: an unknown specifier resolved from inside an active scope of
\* a map that blocks another specifier: resolve failed.
C8_Witness ==
  /\ BareCall
  /\ resolved.result = ModuleNotFound
  /\ \E i \in 1..Len(scopes) : ScopeActive(scopes[i].k, resolved.parentUrl, baseUrl)
  /\ \E j \in 1..Len(imports) : imports[j].v = Null

\* ------------------------------------------------------------------------
\* Claims about rebase and flatten
\* ------------------------------------------------------------------------

\* The absolute URL an entry's target resolves to under a base URL
AbsTarget(target, bUrl) ==
  IF target = Null THEN Null ELSE Href(NewURL(target, bUrl))

\* The keys of a dictionary and the absolute URLs of its targets
AbsEntries(m, bUrl) ==
  { << m[i].k, AbsTarget(m[i].v, bUrl) >> : i \in 1..Len(m) }

\* The keys of the scopes, each with its entries' absolute URLs
AbsScopes(tm) ==
  { << tm.scopes[i].k, AbsEntries(tm.scopes[i].v, tm.baseUrl) >> :
      i \in 1..Len(tm.scopes) }

\* C9: after rebase(B) and rebase(A) on a handle based at A, the imports
\* and every scope have the entries they had, each resolving to the same
\* absolute URL.
C9_RebaseRoundTrip ==
  \A b \in BaseUrls :
    LET tm   == Handle
        back == rebase(rebase(tm, b), Href(tm.baseUrl))
    IN  /\ back.baseUrl = tm.baseUrl
        /\ AbsEntries(back.imports, back.baseUrl) = AbsEntries(tm.imports, tm.baseUrl)
        /\ AbsScopes(back) = AbsScopes(tm)

\* Two maps are deep-equal: the same keys with the same values, in any
\* key order
DeepEqualMap(m1, m2) ==
  { << m1[i].k, m1[i].v >> : i \in 1..Len(m1) } =
  { << m2[i].k, m2[i].v >> : i \in 1..Len(m2) }

DeepEqualScopes(s1, s2) ==
  /\ { s1[i].k : i \in 1..Len(s1) } = { s2[i].k : i \in 1..Len(s2) }
  /\ \A i \in 1..Len(s1) : DeepEqualMap(s1[i].v, Get(s2, s1[i].k))

\* C10: flatten applied twice leaves imports, scopes and depcache
\* deep-equal to flatten applied once.
C10_FlattenIdempotent ==
  LET once  == flatten(Handle)
      twice == flatten(once)
  IN  /\ DeepEqualMap(twice.imports, once.imports)
      /\ DeepEqualScopes(twice.scopes, once.scopes)
      /\ DeepEqualMap(twice.depcache, once.depcache)

\* ------------------------------------------------------------------------
\* The gate (Pool) and the install-family operations
\* ------------------------------------------------------------------------

\* The test with the counter read before it is incremented, this.c++ > n,
\* which lets a second call in: the fault C1 excludes
JobMustWaitPostIncrement(counter) == counter - 1 > PoolN

\* The test of Pool.job on the incremented counter: ++this.c > n
JobMustWait(counter) == counter > PoolN

\* What Pool.next does with the resolver it pops: the expression
\* this.q.pop() || (() => {}) is evaluated and dropped, the resolver is not
\* called, so no waiting call is resumed.
NextResumes(queue) == { }

\* The queue after this.q.pop()
Popped(queue) == IF Len(queue) = 0 THEN queue ELSE SubSeq(queue, 1, Len(queue) - 1)

\* A call holds the gate from job() returning to next()
Holds(o) == pc[o] \in { "granted", "working" }

\* Calls are numbered in the order they are made
Callable(o) == pc[o] = "idle" /\ \A p \in Ops : p < o => pc[p] # "idle"

\* await this._p.job() by call o, which is method kind on packages
Acquire(o, kind, packages) ==
  /\ op' = [ op EXCEPT ![o] = [ kind |-> kind, packages |-> packages ] ]
  /\ c' = c + 1
  /\ IF JobMustWait(c + 1)
     THEN q' = Append(q, o) /\ pc' = [ pc EXCEPT ![o] = "queued" ]
     ELSE q' = q /\ pc' = [ pc EXCEPT ![o] = "granted" ]
  /\ UNCHANGED << running, taskFailed >>

\* The call leaves its try block: this._p.next() in finally, then the
\* async function settles as to
Release(o, to) ==
  /\ c' = c - 1
  /\ q' = Popped(q)
  /\ pc' = [ p \in Ops |-> IF p = o THEN to
                           ELSE IF p \in NextResumes(q) THEN "granted"
                           ELSE pc[p] ]
  /\ op' = [ op EXCEPT ![o].packages = << >> ]
  /\ promise' = [ promise EXCEPT ![o] =
                    IF op[o].kind \in { "upgrade", "uninstall" } THEN @
                    ELSE IF to = "done" THEN "fulfilled" ELSE "rejected" ]

\* The loop of upgrade and of uninstall over the packages: each is deleted
\* from the top-level imports, until one is not an entry with a target
RECURSIVE DeleteLoop(_, _)
DeleteLoop(packages, impMap) ==
  IF Len(packages) = 0 THEN [ imports |-> impMap, thrown |-> FALSE ]
  ELSE IF \/ ~Has(impMap, packages[1])
          \/ Get(impMap, packages[1]) = Null
          \/ Get(impMap, packages[1]) = << >>
  THEN [ imports |-> impMap, thrown |-> TRUE ]
  ELSE DeleteLoop(Tail(packages), Del(impMap, packages[1]))

\* TraceMap.install(packages)
InstallCall(o) ==
  /\ Callable(o)
  /\ \E packages \in PackageLists : Acquire(o, "install", packages)
  /\ promise' = [ promise EXCEPT ![o] = "pending" ]
  /\ UNCHANGED << imports, env >>
  /\ UNCHANGED gateFrame

\* TraceMap.traceInstall(modules), or traceInstall() on all the imports
TraceInstallCall(o) ==
  /\ Callable(o)
  /\ \E modules \in PackageLists \cup { NoArg } :
       Acquire(o, "traceInstall", IF modules = NoArg THEN Keys(imports) ELSE modules)
  /\ promise' = [ promise EXCEPT ![o] = "pending" ]
  /\ UNCHANGED << imports, env >>
  /\ UNCHANGED gateFrame

\* TraceMap.lockInstall(): its packages are read once the gate is granted
LockInstallCall(o) ==
  /\ Callable(o)
  /\ Acquire(o, "lockInstall", << >>)
  /\ promise' = [ promise EXCEPT ![o] = "pending" ]
  /\ UNCHANGED << imports, env >>
  /\ UNCHANGED gateFrame

\* The checks and the loop of upgrade and uninstall, then the call made
\* without await: kind of the operation, then the packages of the call
DeleteThen(o, kind, packages, emptyThrows) ==
  LET loop == DeleteLoop(packages, imports)
  IN  IF Len(packages) = 0 /\ emptyThrows
      THEN /\ pc' = [ pc EXCEPT ![o] = "thrown" ]
           /\ op' = [ op EXCEPT ![o] = [ kind |-> kind, packages |-> << >> ] ]
           /\ promise' = [ promise EXCEPT ![o] = "rejected" ]
           /\ UNCHANGED << imports, c, q, running, taskFailed >>
      ELSE IF loop.thrown
      THEN /\ imports' = loop.imports
           /\ pc' = [ pc EXCEPT ![o] = "thrown" ]
           /\ op' = [ op EXCEPT ![o] = [ kind |-> kind, packages |-> << >> ] ]
           /\ promise' = [ promise EXCEPT ![o] = "rejected" ]
           /\ UNCHANGED << c, q, running, taskFailed >>
      ELSE /\ imports' = loop.imports
           /\ Acquire(o, kind,
                      IF kind = "uninstall" THEN Keys(loop.imports) ELSE packages)
           /\ promise' = [ promise EXCEPT ![o] = "fulfilled" ]

\* TraceMap.upgrade(packages), or upgrade() on all the imports
UpgradeCall(o) ==
  /\ Callable(o)
  /\ \E packages \in PackageLists \cup { NoArg } :
       DeleteThen(o, "upgrade",
                  IF packages = NoArg THEN Keys(imports) ELSE packages, TRUE)
  /\ UNCHANGED env
  /\ UNCHANGED gateFrame

\* TraceMap.uninstall(packages)
UninstallCall(o) ==
  /\ Callable(o)
  /\ \E packages \in PackageLists : DeleteThen(o, "uninstall", packages, TRUE)
  /\ UNCHANGED env
  /\ UNCHANGED gateFrame

\* TraceMap.installEnv(env)
InstallEnvCall(o) ==
  /\ Callable(o)
  /\ \E e \in Envs : env' = e
  /\ Acquire(o, "installEnv", Keys(imports))
  /\ promise' = [ promise EXCEPT ![o] = "pending" ]
  /\ UNCHANGED imports
  /\ UNCHANGED gateFrame

\* The packages the call fans out over, read when its try block starts
TaskCount(o) ==
  IF op[o].kind = "lockInstall" THEN Len(imports) ELSE Len(op[o].packages)

\* new Installer(this, opts) and the start of the package tasks
Start(o) ==
  /\ pc[o] = "granted"
  /\ pc' = [ pc EXCEPT ![o] = "working" ]
  /\ running' = [ running EXCEPT ![o] = TaskCount(o) ]
  /\ UNCHANGED << imports, env, c, q, op, taskFailed, promise >>
  /\ UNCHANGED gateFrame

\* new Installer(this, opts) throws
StartFails(o) ==
  /\ pc[o] = "granted"
  /\ Release(o, "failed")
  /\ UNCHANGED << imports, env, running, taskFailed >>
  /\ UNCHANGED gateFrame

\* A package task of the call resolves
TaskOk(o) ==
  /\ running[o] > 0
  /\ running' = [ running EXCEPT ![o] = @ - 1 ]
  /\ UNCHANGED << imports, env, c, q, pc, op, taskFailed, promise >>
  /\ UNCHANGED gateFrame

\* A package task of the call rejects
TaskFails(o) ==
  /\ running[o] > 0
  /\ running' = [ running EXCEPT ![o] = @ - 1 ]
  /\ taskFailed' = [ taskFailed EXCEPT ![o] = TRUE ]
  /\ UNCHANGED << imports, env, c, q, pc, op, promise >>
  /\ UNCHANGED gateFrame

\* installer.complete(): the packages the call installed are written to
\* the top-level imports
RECURSIVE InstallerComplete(_, _)
InstallerComplete(packages, impMap) ==
  IF Len(packages) = 0 THEN impMap
  ELSE InstallerComplete(Tail(packages),
         Put(impMap, packages[1], << ".", "/" >> \o packages[1]))

\* A completion step that does not wait for the package tasks (the
\* Promise.all not awaited): the fault C19 excludes
CompleteEarly(o) ==
  /\ pc[o] = "working"
  /\ imports' = IF op[o].kind \in { "install", "upgrade" }
                THEN InstallerComplete(op[o].packages, imports)
                ELSE imports
  /\ Release(o, "done")
  /\ UNCHANGED << env, running, taskFailed >>
  /\ UNCHANGED gateFrame

\* Promise.all has resolved: installer.complete(), then finally
Complete(o) ==
  /\ pc[o] = "working" /\ running[o] = 0 /\ ~taskFailed[o]
  /\ imports' = IF op[o].kind \in { "install", "upgrade" }
                THEN InstallerComplete(op[o].packages, imports)
                ELSE imports
  /\ Release(o, "done")
  /\ UNCHANGED << env, running, taskFailed >>
  /\ UNCHANGED gateFrame

\* Promise.all has resolved and installer.complete() throws, then finally
CompleteFails(o) ==
  /\ pc[o] = "working" /\ running[o] = 0 /\ ~taskFailed[o]
  /\ Release(o, "failed")
  /\ UNCHANGED << imports, env, running, taskFailed >>
  /\ UNCHANGED gateFrame

\* Promise.all has rejected on the first task that failed, then finally
Abort(o) ==
  /\ pc[o] = "working" /\ taskFailed[o]
  /\ Release(o, "failed")
  /\ UNCHANGED << imports, env, running, taskFailed >>
  /\ UNCHANGED gateFrame



\* A handle constructed on a map, no install-family call made yet
InitGate ==
  /\ baseUrl = RebasedUrl(BaseA)
  /\ \E m \in { EmptyMap, MapNested } :
       imports = m.imports /\ scopes = m.scopes /\ depcache = m.depcache
  /\ nCalls = 0
  /\ resolved = NotResolved
  /\ GateIdle
  /\ TraceIdle
  /\ StyleIdle

NextGate ==
  \/ \E o \in Ops : InstallCall(o)
  \/ \E o \in Ops : TraceInstallCall(o)
  \/ \E o \in Ops : LockInstallCall(o)
  \/ \E o \in Ops : UpgradeCall(o)
  \/ \E o \in Ops : UninstallCall(o)
  \/ \E o \in Ops : InstallEnvCall(o)
  \/ \E o \in Ops : Start(o)
  \/ \E o \in Ops : StartFails(o)
  \/ \E o \in Ops : TaskOk(o)
  \/ \E o \in Ops : TaskFails(o)
  \/ \E o \in Ops : Complete(o)
  \/ \E o \in Ops : CompleteFails(o)
  \/ \E o \in Ops : Abort(o)

SpecGate == InitGate /\ [][NextGate]_vars

\* ------------------------------------------------------------------------
\* trace
\* ------------------------------------------------------------------------

TargetC == << ".", "/", "c" >>

\* The maps trace runs on: every specifier mapped, one blocked, one unknown
TraceMaps ==
  { << Entry(KeyA, TargetA), Entry(KeyB, TargetB), Entry(KeyC, TargetC) >>,
    << Entry(KeyA, TargetA), Entry(KeyB, TargetB), Entry(KeyC, Null) >>,
    << Entry(KeyA, TargetA), Entry(KeyB, TargetB) >> }

\* The size analyze returns for a module
AnalyzerSize(url) == CharCode(url.pathname[Len(url.pathname)])

\* A doTrace without the test of the trace, which enters a module again:
\* the fault C6 excludes
NeverVisited(tr, href) == FALSE

\* A test that takes a module for traced only once its order is assigned,
\* so that a branch reaching a module another branch is analyzing enters
\* it again: the fault C13 excludes
VisitedWhenFinished(tr, href) == Has(tr, href) /\ Get(tr, href).order # NaN

\* if (trace[resolved.href]) return;
Visited(tr, href) == Has(tr, href)

\* The record doTrace enters in the trace before it awaits analyze
Placeholder == [ deps |-> << >>, size |-> NaN, order |-> NaN ]

\* The start of doTrace(specifier, parentUrl, trace, curMap), up to its
\* first await: what it stores in curMap and how it goes on. It throws
\* when resolve does, returns on null and on a URL already in the trace,
\* and else enters the URL and awaits analyze.
DoTraceEnter(specifier, parentUrl, tr) ==
  CHOOSE d \in
    { IF r.kind = "error" THEN [ outcome |-> "throw" ]
      ELSE IF r.kind = "null" THEN [ outcome |-> "return", stored |-> Null ]
      ELSE IF Visited(tr, Href(r.url))
      THEN [ outcome |-> "return", stored |-> Href(r.url) ]
      ELSE [ outcome |-> "await", stored |-> Href(r.url), url |-> r.url ] :
      r \in { resolve(specifier, parentUrl, imports, scopes, baseUrl) } } : TRUE

\* analyze is called once more for the URL
Counted(calls, href) ==
  Put(calls, href, IF Has(calls, href) THEN Get(calls, href) + 1 ELSE 1)

AwaitingAnalyze(url) == [ url |-> url, phase |-> "analyze", rest |-> << >> ]

\* specifiers.map(specifier => doTrace(specifier, this._baseUrl, trace, map)):
\* every entry's doTrace runs to its first await, in the order of the entries
RECURSIVE StartEntries(_, _)
StartEntries(specifiers, st) ==
  IF Len(specifiers) = 0 THEN st
  ELSE LET d == DoTraceEnter(specifiers[1], baseUrl, st.trace)
       IN  StartEntries(Tail(specifiers),
             IF d.outcome = "throw"
             THEN [ st EXCEPT !.estate = Append(@, "failed"),
                              !.stack  = Append(@, << >>) ]
             ELSE IF d.outcome = "return"
             THEN [ st EXCEPT !.tmap   = Put(@, specifiers[1], d.stored),
                              !.estate = Append(@, "done"),
                              !.stack  = Append(@, << >>) ]
             ELSE [ st EXCEPT !.tmap     = Put(@, specifiers[1], d.stored),
                              !.trace    = Put(@, d.stored, Placeholder),
                              !.analyzed = Counted(@, d.stored),
                              !.estate   = Append(@, "running"),
                              !.stack    = Append(@, << AwaitingAnalyze(d.url) >>) ])

\* TraceMap.trace(specifiers)
TraceCall ==
  /\ tpc = "idle"
  /\ \E specifiers \in EntryLists :
       LET st == StartEntries(specifiers,
                   [ tmap |-> << >>, trace |-> << >>, analyzed |-> << >>,
                     estate |-> << >>, stack |-> << >> ])
       IN  /\ tmap' = st.tmap
           /\ trace' = st.trace
           /\ analyzed' = st.analyzed
           /\ estate' = st.estate
           /\ stack' = st.stack
  /\ tpc' = "running"
  /\ postOrder' = 0
  /\ UNCHANGED << mapVars, gateVars, styleVars >>

Top(e) == stack[e][Len(stack[e])]

SetTop(e, frame) == [ stack EXCEPT ![e][Len(stack[e])] = frame ]

\* The record of a URL in the trace with one field set
WithField(tr, href, field, value) ==
  IF Has(tr, href)
  THEN Put(tr, href, [ Get(tr, href) EXCEPT ![field] = value ])
  ELSE tr

\* analyze returns to the doTrace that awaits it: curTrace.size = size
AnalyzeReturns(e) ==
  /\ e \in 1..Len(stack)
  /\ Len(stack[e]) > 0
  /\ Top(e).phase = "analyze"
  /\ \E deps \in DepLists :
       stack' = SetTop(e, [ Top(e) EXCEPT !.phase = "loop", !.rest = deps ])
  /\ trace' = WithField(trace, Href(Top(e).url), "size", AnalyzerSize(Top(e).url))
  /\ UNCHANGED << tpc, tmap, postOrder, estate, analyzed >>
  /\ UNCHANGED << mapVars, gateVars, styleVars >>

\* await doTrace(dep, resolved, trace, curTrace.deps) for the next dep
DepStep(e) ==
  /\ e \in 1..Len(stack)
  /\ Len(stack[e]) > 0
  /\ Top(e).phase = "loop"
  /\ Len(Top(e).rest) > 0
  /\ \E d \in { DoTraceEnter(Top(e).rest[1], Top(e).url, trace) } :
     LET href == Href(Top(e).url)
         dep  == Top(e).rest[1]
         next == [ Top(e) EXCEPT !.rest = Tail(@) ]
         tr1  == IF d.outcome = "throw" THEN trace
                 ELSE WithField(trace, href, "deps",
                                Put(Get(trace, href).deps, dep, d.stored))
     IN  IF d.outcome = "throw"
         THEN /\ stack' = [ stack EXCEPT ![e] = << >> ]
              /\ estate' = [ estate EXCEPT ![e] = "failed" ]
              /\ UNCHANGED << trace, analyzed >>
         ELSE IF d.outcome = "return"
         THEN /\ stack' = SetTop(e, next)
              /\ trace' = tr1
              /\ UNCHANGED << estate, analyzed >>
         ELSE /\ Len(stack[e]) < MaxDepth
              /\ stack' = [ stack EXCEPT ![e] =
                              Append(SubSeq(@, 1, Len(@) - 1), next)
                                \o << AwaitingAnalyze(d.url) >> ]
              /\ trace' = Put(tr1, d.stored, Placeholder)
              /\ analyzed' = Counted(analyzed, d.stored)
              /\ UNCHANGED estate
  /\ UNCHANGED << tpc, tmap, postOrder >>
  /\ UNCHANGED << mapVars, gateVars, styleVars >>

\* The end of doTrace with the counter read but not incremented,
\* curTrace.order = postOrder: the fault C14 excludes
OrderStepNoIncrement(e) ==
  /\ e \in 1..Len(stack)
  /\ Len(stack[e]) > 0
  /\ Top(e).phase = "loop"
  /\ Len(Top(e).rest) = 0
  /\ trace' = WithField(trace, Href(Top(e).url), "order", postOrder)
  /\ postOrder' = postOrder
  /\ stack' = [ stack EXCEPT ![e] = SubSeq(@, 1, Len(@) - 1) ]
  /\ estate' = IF Len(stack[e]) = 1 THEN [ estate EXCEPT ![e] = "done" ] ELSE estate
  /\ UNCHANGED << tpc, tmap, analyzed >>
  /\ UNCHANGED << mapVars, gateVars, styleVars >>

\* The loop over the deps is over: curTrace.order = postOrder++
OrderStep(e) ==
  /\ e \in 1..Len(stack)
  /\ Len(stack[e]) > 0
  /\ Top(e).phase = "loop"
  /\ Len(Top(e).rest) = 0
  /\ trace' = WithField(trace, Href(Top(e).url), "order", postOrder)
  /\ postOrder' = postOrder + 1
  /\ stack' = [ stack EXCEPT ![e] = SubSeq(@, 1, Len(@) - 1) ]
  /\ estate' = IF Len(stack[e]) = 1 THEN [ estate EXCEPT ![e] = "done" ] ELSE estate
  /\ UNCHANGED << tpc, tmap, analyzed >>
  /\ UNCHANGED << mapVars, gateVars, styleVars >>

\* Promise.all resolves: trace returns { map, trace }
TraceReturns ==
  /\ tpc = "running"
  /\ \A e \in 1..Len(estate) : estate[e] = "done"
  /\ tpc' = "returned"
  /\ UNCHANGED << tmap, trace, postOrder, estate, stack, analyzed >>
  /\ UNCHANGED << mapVars, gateVars, styleVars >>

\* Promise.all rejects on the first doTrace that failed
TraceRejects ==
  /\ tpc = "running"
  /\ \E e \in 1..Len(estate) : estate[e] = "failed"
  /\ tpc' = "rejected"
  /\ UNCHANGED << tmap, trace, postOrder, estate, stack, analyzed >>
  /\ UNCHANGED << mapVars, gateVars, styleVars >>

\* A handle constructed on a map of imports, trace not yet called
InitTrace ==
  /\ baseUrl = RebasedUrl(BaseA)
  /\ imports \in TraceMaps
  /\ scopes = << >>
  /\ depcache = << >>
  /\ nCalls = 0
  /\ resolved = NotResolved
  /\ GateIdle
  /\ TraceIdle
  /\ StyleIdle

NextTrace ==
  \/ TraceCall
  \/ \E e \in 1..MaxDepth : AnalyzeReturns(e)
  \/ \E e \in 1..MaxDepth : DepStep(e)
  \/ \E e \in 1..MaxDepth : OrderStep(e)
  \/ TraceReturns
  \/ TraceRejects

SpecTrace == InitTrace /\ [][NextTrace]_vars

\* The analyzer answers every call and the executor runs every
\* continuation that is ready
FairSpecTrace == SpecTrace /\ WF_vars(NextTrace)

\* ------------------------------------------------------------------------
\* Claims about the gate
\* ------------------------------------------------------------------------

C2_WaitingCallIsGranted ==
  \A o \in Ops : pc[o] = "queued" => \E h \in Ops : Holds(h)

\* C3: when the installer work of a call has failed and the call has
\* settled, the gate is released: with no call holding it the counter is
\* back to 0, so that the next call acquires the gate at once.
C3_FailureReleasesGate ==
  ((\E f \in Ops : pc[f] = "failed") /\ (\A o \in Ops : ~Holds(o))) => c = 0

\* C4: every write to the top-level imports and to the environment list
\* is a step of the call that holds the gate: no entry is deleted and the
\* environment is not replaced by a call that does not hold it.
C4_WritesUnderGate ==
  [][ (imports' # imports \/ env' # env) =>
        \E h \in Ops : Holds(h) /\ pc'[h] # pc[h] ]_vars

\* ------------------------------------------------------------------------
\* Claims about trace
\* ------------------------------------------------------------------------

\* The edges dependent -> dependency the trace records in the deps
EdgesOf(node) ==
  { << node.k, node.v.deps[j].v >> :
      j \in { j \in 1..Len(node.v.deps) : node.v.deps[j].v # Null } }

TraceEdges == UNION { EdgesOf(trace[i]) : i \in 1..Len(trace) }

\* The URLs reached from the URLs of S along at most n edges
RECURSIVE ReachSet(_, _)
ReachSet(S, n) ==
  IF n = 0 THEN S
  ELSE ReachSet(S \cup { e[2] : e \in { e \in TraceEdges : e[1] \in S } }, n - 1)

\* There is a path of edges from a to b
Reaches(a, b) == b \in ReachSet({ a }, Len(trace))

\* The edge closes a cycle: its dependent is reached from its dependency
Cyclic(e) == Reaches(e[2], e[1])

OrderOf(href) == Get(trace, href).order

\* C5: once trace has returned, every recorded edge that is not part of a
\* cycle has its dependency ordered before its dependent.
C5_Postorder ==
  tpc = "returned" =>
    \A e \in TraceEdges : ~Cyclic(e) => OrderOf(e[2]) < OrderOf(e[1])

TraceSettled ==
  /\ tpc \in { "returned", "rejected" }
  /\ \A e \in 1..Len(estate) : estate[e] \in { "done", "failed" }

\* C6: trace eventually returns on every module graph, with import cycles
\* and self-imports, when every analyze call returns: the closing edge of
\* a cycle is recorded but the module is not entered again.
C6_TraceTerminates ==
  /\ <>TraceSettled
  /\ [](\A i \in 1..Len(analyzed) : analyzed[i].v <= 1)

\* C6 witness: trace has returned a trace that holds a module importing
\* itself and a cycle of two modules.
C6_Witness ==
  /\ tpc = "returned"
  /\ \E e \in TraceEdges : e[1] = e[2]
  /\ \E e \in TraceEdges : e[1] # e[2] /\ Cyclic(e)

\* ------------------------------------------------------------------------
\* Claims about sort
\* ------------------------------------------------------------------------

\* resolve gives the same result on two maps, for every specifier and
\* referrer
SameResolution(tm1, tm2) ==
  \A specifier \in Specifiers, parentUrl \in ParentUrls(baseUrl) :
    resolve(specifier, parentUrl, tm1.imports, tm1.scopes, tm1.baseUrl) =
    resolve(specifier, parentUrl, tm2.imports, tm2.scopes, tm2.baseUrl)

\* C11, as amended: sort applied twice equals sort applied once, resolve
\* gives the same result before and after sort for every specifier and
\* referrer, and sort changes nothing but the order of the keys of imports,
\* of scopes, of each scope's inner mapping and of depcache.
C11_SortPreserves ==
  LET once == sort(Handle)
  IN  /\ sort(once) = once
      /\ SameResolution(once, Handle)
      /\ once.baseUrl = baseUrl
      /\ DeepEqualMap(once.imports, imports)
      /\ DeepEqualScopes(once.scopes, scopes)
      /\ DeepEqualMap(once.depcache, depcache)

\* C11, as stated: the same, and the key order of imports, scopes and each
\* scope's inner mapping is all that changes, so depcache is as it was, the
\* order of its keys included.
C11_SortKeepsDepcacheOrder ==
  C11_SortPreserves /\ Keys(sort(Handle).depcache) = Keys(depcache)

\* C11 witness: a handle whose imports, scopes and a scope's inner mapping
\* are all out of order and which blocks a specifier; two structural calls
\* have been made on it.
C11_Witness ==
  /\ nCalls = MaxCalls
  /\ Keys(sort(Handle).imports) # Keys(imports)
  /\ Keys(sort(Handle).scopes) # Keys(scopes)
  /\ \E i \in 1..Len(scopes) : alphabetize(scopes[i].v) # scopes[i].v
  /\ \E i \in 1..Len(imports) : imports[i].v = Null

\* ------------------------------------------------------------------------
\* Claims about upgrade and uninstall
\* ------------------------------------------------------------------------

\* The call o is made in this step and fails its checks
FailsAtCall(o) == pc[o] = "idle" /\ pc'[o] = "thrown"

\* C12: when a call of upgrade or uninstall fails, the top-level imports
\* are exactly as they were before the call and no re-install is started
\* (the gate is not requested).
C12_FailedCallChangesNothing ==
  [][ \A o \in Ops : FailsAtCall(o) => (imports' = imports /\ c' = c /\ q' = q) ]_vars

\* ------------------------------------------------------------------------
\* Claims about the analyzer calls and the finished trace
\* ------------------------------------------------------------------------

\* C13: within one call of trace the analyzer is called at most once for a
\* URL, in any interleaving of the entries: a URL is in the trace from the
\* step that calls the analyzer for it, and every URL in the trace has had
\* exactly one call.
C13_AnalyzedOnce ==
  /\ \A i \in 1..Len(analyzed) :
       analyzed[i].v <= 1 /\ Has(trace, analyzed[i].k)
  /\ \A i \in 1..Len(trace) : Has(analyzed, trace[i].k)

\* C13 witness: trace has returned for two entries, and some module is the
\* dependency of two different modules (a diamond).
C13_Witness ==
  /\ tpc = "returned"
  /\ Len(estate) = 2
  /\ \E e1, e2 \in TraceEdges :
       e1[2] = e2[2] /\ e1[1] # e2[1] /\ e1[1] # e1[2] /\ e2[1] # e2[2]

\* C14: when trace has returned, every node of the trace is finished: its
\* size is the size the analyzer returned for it, its order is assigned,
\* and the orders of the n nodes are exactly the integers 0..n-1.
C14_ReturnedTraceFinished ==
  tpc = "returned" =>
    /\ \A i \in 1..Len(trace) :
         /\ trace[i].v.size = AnalyzerSize(ParseAbsolute(trace[i].k))
         /\ trace[i].v.size # NaN
         /\ trace[i].v.order # NaN
    /\ { trace[i].v.order : i \in 1..Len(trace) } = 0..(Len(trace) - 1)
    /\ \A i, j \in 1..Len(trace) : i # j => trace[i].v.order # trace[j].v.order

\* C14 witness: trace has returned three nodes for two entries, and one
\* entry's branch went past a module that the other entry's branch was
\* still tracing (the dependent was numbered before its dependency).
C14_Witness ==
  /\ tpc = "returned"
  /\ Len(estate) = 2
  /\ Len(trace) = 3
  /\ \E e \in TraceEdges : ~Cyclic(e) /\ OrderOf(e[2]) > OrderOf(e[1])

\* ------------------------------------------------------------------------
\* More claims about rebase and flatten
\* ------------------------------------------------------------------------

\* A depcache list with its non-plain specifiers made absolute
AbsList(list, bUrl) ==
  [ i \in 1..Len(list) |->
      IF isPlain(list[i]) THEN list[i] ELSE Href(NewURL(list[i], bUrl)) ]

\* The depcache with its keys and its lists made absolute
AbsDepcache(dc, bUrl) ==
  { << Href(NewURL(dc[i].k, bUrl)), AbsList(dc[i].v, bUrl) >> : i \in 1..Len(dc) }

\* The base URLs on the origin of the handle's base URL, which is not file:
SameOriginBases ==
  { b \in BaseUrls : /\ baseUrl.protocol # << "f", "i", "l", "e", ":" >>
                     /\ Origin(RebasedUrl(b)) = Origin(baseUrl) }

\* C15: on a map with no scopes, after rebase to a base URL of the same
\* origin every top-level import with a target and every depcache entry
\* that is not plain resolves under the new base to the absolute URL it
\* resolved to under the old base.
C15_RebaseKeepsTargets ==
  scopes = << >> =>
    \A b \in SameOriginBases :
      LET tm == rebase(Handle, b)
      IN  /\ AbsEntries(tm.imports, tm.baseUrl) = AbsEntries(imports, baseUrl)
          /\ AbsDepcache(tm.depcache, tm.baseUrl) = AbsDepcache(depcache, baseUrl)

\* C16: rebase leaves the top-level imports untouched by the entries of
\* the scopes (the imports are what rebase makes of them on the same map
\* without scopes, with the same keys as before), and every scope entry
\* keeps, in its own scope, its absolute URL under the new base.
C16_RebaseScopesInPlace ==
  \A b \in BaseUrls :
    LET tm   == rebase(Handle, b)
        flat == rebase([ Handle EXCEPT !.scopes = << >> ], b)
    IN  /\ { tm.imports[i].k : i \in 1..Len(tm.imports) } =
           { imports[i].k : i \in 1..Len(imports) }
        /\ tm.imports = flat.imports
        /\ AbsScopes(tm) = AbsScopes(Handle)

\* The scope maps the name to the absolute URL (or to null) in the map tm
HasEntry(tm, scope, name, abs) ==
  /\ Has(tm.scopes, scope)
  /\ Has(Get(tm.scopes, scope), name)
  /\ AbsTarget(Get(Get(tm.scopes, scope), name), tm.baseUrl) = abs

\* C17: flatten discards no mapping: every entry of every scope, the
\* blocked (null) entries and the entries of the origin-root scope
\* included, is afterwards in its scope or in the origin-root scope of its
\* scope, with the same absolute target.
C17_FlattenKeepsEntries ==
  LET tm == flatten(Handle)
  IN  \A i \in 1..Len(scopes) :
        \A j \in 1..Len(scopes[i].v) :
          LET scope == scopes[i].k
              name  == scopes[i].v[j].k
              abs   == AbsTarget(scopes[i].v[j].v, baseUrl)
              root  == ScopeBaseUrl(NewURL(scope, baseUrl), baseUrl)
          IN  \/ HasEntry(tm, scope, name, abs)
              \/ root # << >> /\ HasEntry(tm, root, name, abs)

\* ------------------------------------------------------------------------
\* Claims about the depcache lists
\* ------------------------------------------------------------------------

\* The list new holds the specifiers of the list old at the same places:
\* a plain specifier as it was, another one possibly rewritten for the
\* base URL newUrl
SameOrder(new, old, newUrl) ==
  /\ Len(new) = Len(old)
  /\ \A j \in 1..Len(old) :
       \/ new[j] = old[j]
       \/ /\ ~isPlain(old[j])
          /\ new[j] = baseUrlRelative(NewURL(old[j], baseUrl), newUrl)

Lists(dc) == { dc[i].v : i \in 1..Len(dc) }

\* C18: on the handle reached by any sequence of structural calls, no call
\* reorders or drops the elements of a depcache list: sort keeps every
\* list under its key, flatten removes the empty lists and nothing else,
\* every list rebase leaves is a list it found, its specifiers at their
\* places with only the non-plain ones rewritten, and set and extend leave
\* lists that are as they were or as they are supplied.
C18_DepcacheListOrder ==
  /\ DeepEqualMap(sort(Handle).depcache, depcache)
  /\ flatten(Handle).depcache = SelectSeq(depcache, LAMBDA e : Len(e.v) > 0)
  /\ \A b \in BaseUrls :
       LET new == rebase(Handle, b).depcache
       IN  \A i \in 1..Len(new) :
             \E k \in 1..Len(depcache) :
               SameOrder(new[i].v, depcache[k].v, RebasedUrl(b))
  /\ \A m \in InputMaps :
       /\ Lists(set(Handle, m).depcache) = Lists(m.depcache)
       /\ \A o \in BOOLEAN :
            Lists(extend(Handle, m, o).depcache) \subseteq
              Lists(depcache) \cup Lists(m.depcache)

\* C18 witness: after two structural calls the depcache holds an empty
\* list and a list of a plain and a non-plain specifier, under keys that
\* are out of order.
C18_Witness ==
  /\ nCalls = MaxCalls
  /\ \E i \in 1..Len(depcache) : Len(depcache[i].v) = 0
  /\ \E i \in 1..Len(depcache) :
       /\ Len(depcache[i].v) = 2
       /\ isPlain(depcache[i].v[1]) # isPlain(depcache[i].v[2])
  /\ alphabetize(depcache) # depcache

\* ------------------------------------------------------------------------
\* Claims about the installer's completion step and its package tasks
\* ------------------------------------------------------------------------

\* The step runs installer.complete() for the call o
RunsComplete(o) == Complete(o) \/ CompleteFails(o)

Settled(o) == pc[o] \in { "done", "failed", "thrown" }

\* C19: installer.complete() runs for a call only while the call holds the
\* gate, after every package task of the call has finished and none has
\* failed; it runs at most once, since the call has settled after it and a
\* settled call takes no further step.
C19_CompleteAfterTasks ==
  [][ \A o \in Ops :
        /\ RunsComplete(o) =>
             /\ Holds(o) /\ running[o] = 0 /\ ~taskFailed[o]
             /\ Settled(o)'
        /\ Settled(o) => pc'[o] = pc[o] /\ ~RunsComplete(o) ]_vars

\* C19 witness: one call has fanned out over two packages and completed
\* (both are installed), and another call has ended on a failed task.
C19_Witness ==
  /\ \E o \in Ops : pc[o] = "done" /\ op[o].kind = "install"
  /\ Has(imports, KeyA) /\ Has(imports, KeyB) /\ Get(imports, KeyB) # Null
  /\ \E p \in Ops : pc[p] = "failed" /\ taskFailed[p]

\* The step in which the call o gives the gate up (the finally block)
ReleasesGate(o) == Holds(o) /\ ~Holds(o)'

\* C20: when an install-family call releases the gate none of the package
\* tasks it started is still running, also when one of them has failed.
C20_NoTaskOutlivesGate ==
  [][ \A o \in Ops : ReleasesGate(o) => running[o] = 0 ]_vars

\* ------------------------------------------------------------------------
\* Claims about what upgrade, uninstall and installEnv report to the caller
\* ------------------------------------------------------------------------

\* The calls that trigger a re-install
Reinstalls(o) == op[o].kind \in { "upgrade", "uninstall", "installEnv" }

\* The re-install of the call o is still queued or running
ReinstallInFlight(o) == pc[o] \in { "queued", "granted", "working" }

\* C21: upgrade, uninstall and installEnv settle towards their caller only
\* once the install or traceInstall they trigger has settled, and a failed
\* re-install is delivered to the caller as a rejection.
C21_CallerWaitsForReinstall ==
  \A o \in Ops :
    Reinstalls(o) =>
      /\ ReinstallInFlight(o) => promise[o] = "pending"
      /\ pc[o] = "failed" => promise[o] = "rejected"

\* ------------------------------------------------------------------------
\* Styled JSON: JSON.stringify, jsonStringifyStyled and detectStyle
\* ------------------------------------------------------------------------

Quote == "\""

Backslash == "\\"

\* A string as JSON.stringify quotes it (the strings of the model hold no
\* character that is escaped)
JsonString(str) == << Quote >> \o str \o << Quote >>

\* A target: a string, or null
JsonTarget(v) == IF v = Null THEN << "n", "u", "l", "l" >> ELSE JsonString(v)

\* A key and its colon, with a space after it when there is a gap
JsonKey(k, gap) ==
  JsonString(k) \o << ":" >> \o (IF Len(gap) = 0 THEN << >> ELSE << " " >>)

RECURSIVE JsonJoin(_, _)
JsonJoin(parts, sep) ==
  IF Len(parts) = 0 THEN << >>
  ELSE IF Len(parts) = 1 THEN parts[1]
  ELSE parts[1] \o sep \o JsonJoin(Tail(parts), sep)

\* An object or an array of serialized members inside the indentation ind:
\* on one line without a gap, else one member a line, one gap deeper
JsonMembers(parts, open, close, gap, ind) ==
  IF Len(parts) = 0 THEN << open, close >>
  ELSE IF Len(gap) = 0
  THEN << open >> \o JsonJoin(parts, << "," >>) \o << close >>
  ELSE << open, LF >> \o ind \o gap
         \o JsonJoin(parts, << ",", LF >> \o ind \o gap)
         \o << LF >> \o ind \o << close >>

\* An object of targets: the imports, or the imports of one scope
JsonTargets(obj, gap, ind) ==
  JsonMembers([ i \in 1..Len(obj) |->
                  JsonKey(obj[i].k, gap) \o JsonTarget(obj[i].v) ],
              "{", "}", gap, ind)

JsonScopes(obj, gap, ind) ==
  JsonMembers([ i \in 1..Len(obj) |->
                  JsonKey(obj[i].k, gap) \o JsonTargets(obj[i].v, gap, ind \o gap) ],
              "{", "}", gap, ind)

JsonList(list, gap, ind) ==
  JsonMembers([ i \in 1..Len(list) |-> JsonString(list[i]) ], "[", "]", gap, ind)

JsonDepcache(obj, gap, ind) ==
  JsonMembers([ i \in 1..Len(obj) |->
                  JsonKey(obj[i].k, gap) \o JsonList(obj[i].v, gap, ind \o gap) ],
              "{", "}", gap, ind)

\* JSON.stringify(obj, null, gap) of the object toString builds: the
\* members imports, scopes and depcache that are not empty, in this order
JsonStringify(map, gap) ==
  JsonMembers(
    (IF Len(map.imports) = 0 THEN << >>
     ELSE << JsonKey(<< "i", "m", "p", "o", "r", "t", "s" >>, gap)
               \o JsonTargets(map.imports, gap, gap) >>)
    \o (IF Len(map.scopes) = 0 THEN << >>
        ELSE << JsonKey(<< "s", "c", "o", "p", "e", "s" >>, gap)
                  \o JsonScopes(map.scopes, gap, gap) >>)
    \o (IF Len(map.depcache) = 0 THEN << >>
        ELSE << JsonKey(<< "d", "e", "p", "c", "a", "c", "h", "e" >>, gap)
                  \o JsonDepcache(map.depcache, gap, gap) >>),
    "{", "}", gap, << >>)

\* The strings parts[lo], ..., parts[hi] one after the other
RECURSIVE ConcatRange(_, _, _)
ConcatRange(parts, lo, hi) ==
  IF lo > hi THEN << >>
  ELSE IF lo = hi THEN parts[lo]
  ELSE CHOOSE r \in { ConcatRange(parts, lo, mid) \o ConcatRange(parts, mid + 1, hi) :
                        mid \in { (lo + hi) \div 2 } } : TRUE

Concat(parts) == ConcatRange(parts, 1, Len(parts))

\* A global replace takes its matches from the left and never inside one
\* another: /([^\\])""/ matches at i when no match has started at one of
\* the two characters before i
RECURSIVE EmptyStringAt(_, _)
EmptyStringAt(str, i) ==
  /\ i >= 1 /\ i + 2 <= Len(str)
  /\ str[i] # Backslash /\ str[i + 1] = Quote /\ str[i + 2] = Quote
  /\ ~EmptyStringAt(str, i - 1)
  /\ ~EmptyStringAt(str, i - 2)

\* .replace(/([^\\])""/g, '$1' + quote + quote)
ReplaceEmptyStrings(str, quote) ==
  Concat([ i \in 1..Len(str) |->
             IF EmptyStringAt(str, i - 1) \/ EmptyStringAt(str, i - 2)
             THEN quote ELSE << str[i] >> ])

\* /([^\\])"/ matches at i when no match has started at the character before
RECURSIVE QuoteAt(_, _)
QuoteAt(str, i) ==
  /\ i >= 1 /\ i + 1 <= Len(str)
  /\ str[i] # Backslash /\ str[i + 1] = Quote
  /\ ~QuoteAt(str, i - 1)

\* .replace(/([^\\])"/g, '$1' + quote)
ReplaceQuotes(str, quote) ==
  Concat([ i \in 1..Len(str) |->
             IF QuoteAt(str, i - 1) THEN quote ELSE << str[i] >> ])

\* .replace(/\n/g, newline + indent)
ReplaceNewlines(str, with) ==
  Concat([ i \in 1..Len(str) |-> IF str[i] = LF THEN with ELSE << str[i] >> ])

\* utils.jsonStringifyStyled(json, style)
jsonStringifyStyled(json, style) ==
  CHOOSE text \in
    { style.indent
        \o ReplaceNewlines(quotes, style.newline \o style.indent)
        \o style.trailingNewline :
      quotes \in
        { ReplaceQuotes(empties, style.quote) :
          empties \in
            { ReplaceEmptyStrings(jsonString, style.quote) :
              jsonString \in { JsonStringify(json, style.tab) } } } } : TRUE

\* The least and the k-th least of a set of indexes
MinOf(S) == CHOOSE i \in S : \A j \in S : i <= j

MaxOf(S) == CHOOSE i \in S : \A j \in S : j <= i

Nth(S, k) == CHOOSE i \in S : Cardinality({ j \in S : j < i }) = k - 1

\* The characters \s matches, of those the model writes
IsSpace(ch) == ch \in { " ", TAB, LF, CR }

\* string.match(/\r?\n|\r(?!\n)/): the first newline sequence, or none
NewLineMatch(str) ==
  LET at == { i \in 1..Len(str) : str[i] \in { CR, LF } }
  IN  IF at = { } THEN << >>
      ELSE IF str[MinOf(at)] = CR /\ MinOf(at) < Len(str) /\ str[MinOf(at) + 1] = LF
      THEN << CR, LF >>
      ELSE << str[MinOf(at)] >>

\* string.split(sep): the characters when sep is empty, else the pieces
\* between the places sep stands (a newline sequence stands at no two
\* places that overlap)
Split(str, sep) ==
  IF Len(sep) = 0 THEN [ i \in 1..Len(str) |-> << str[i] >> ]
  ELSE LET at == { i \in 1..(Len(str) - Len(sep) + 1) :
                     SubSeq(str, i, i + Len(sep) - 1) = sep }
           n  == Cardinality(at)
       IN  [ k \in 1..(n + 1) |->
               SubSeq(str,
                      IF k = 1 THEN 1 ELSE Nth(at, k - 1) + Len(sep),
                      IF k = n + 1 THEN Len(str) ELSE Nth(at, k) - 1) ]

\* line.match(/^\s*[^\s]/) is not null
HasInk(line) == \E i \in 1..Len(line) : ~IsSpace(line[i])

\* curIndent[0].slice(0, -1): the white space a line with ink starts with
LeadingSpace(line) ==
  SubSeq(line, 1, MinOf({ i \in 1..Len(line) : ~IsSpace(line[i]) }) - 1)

\* The loop over the lines: indent is taken from the first line with ink,
\* and again from each later one while the match array, of length 1, is
\* shorter than indent; so it ends as the leading space of the first line
\* with ink that has at most one such character, or of the last one.
\* The sources of the model are JSON documents: some line has ink.
IndentOf(lines) ==
  LET inky == { k \in 1..Len(lines) : HasInk(lines[k]) }
      stop == { k \in inky : Len(LeadingSpace(lines[k])) <= 1 }
  IN  LeadingSpace(lines[IF stop = { } THEN MaxOf(inky) ELSE MinOf(stop)])

\* line.match(/^[ \t]*/)[0]
TabSpaceOf(line) ==
  SubSeq(line, 1,
         MinOf({ i \in 1..Len(line) : line[i] \notin { " ", TAB } }
                 \cup { Len(line) + 1 }) - 1)

\* The differences of length between one tabSpace and the one before
TabDifferences(tabSpaces) ==
  [ i \in 1..Len(tabSpaces) |->
      LET d == Len(tabSpaces[i]) - (IF i = 1 THEN 0 ELSE Len(tabSpaces[i - 1]))
      IN  IF d < 0 THEN 0 - d ELSE d ]

TabDifferenceFreq(diffs, d) == Cardinality({ i \in 1..Len(diffs) : diffs[i] = d })

\* bestTabLength: the keys are visited in ascending order and one replaces
\* the best when it is at least as frequent, so the greatest of the most
\* frequent differences is left; 0 stands for undefined
BestTabLength(diffs) ==
  LET keys == { diffs[i] : i \in 1..Len(diffs) } \ { 0 }
  IN  IF keys = { } THEN 0
      ELSE CHOOSE k \in keys :
             \A j \in keys :
               \/ TabDifferenceFreq(diffs, j) < TabDifferenceFreq(diffs, k)
               \/ TabDifferenceFreq(diffs, j) = TabDifferenceFreq(diffs, k) /\ j <= k

\* str.substr(start): a negative start counts from the end
Substr(str, start) ==
  LET from == IF start < 0
              THEN (IF Len(str) + start < 0 THEN 0 ELSE Len(str) + start)
              ELSE (IF start > Len(str) THEN Len(str) ELSE start)
  IN  SubSeq(str, from + 1, Len(str))

\* tabSpace.substr(tabSpace.length - bestTabLength); the start is NaN, read
\* as 0, when bestTabLength is undefined
TabSamples(tabSpaces, best) ==
  [ i \in 1..Len(tabSpaces) |->
      IF best = 0 THEN tabSpaces[i]
      ELSE Substr(tabSpaces[i], Len(tabSpaces[i]) - best) ]

TabSampleCount(samples, sample) ==
  Cardinality({ i \in 1..Len(samples) : samples[i] = sample })

\* Object.keys(tabSamples): the samples in the order they first occur
TabSampleKeys(samples) ==
  LET firsts == { i \in 1..Len(samples) :
                    \A j \in 1..(i - 1) : samples[j] # samples[i] }
  IN  [ k \in 1..Cardinality(firsts) |-> samples[Nth(firsts, k)] ]

\* bestTabSample: a sample replaces the best when the best is undefined or
\* empty, or when the sample is more frequent; empty stands for undefined
RECURSIVE BestTabSampleFrom(_, _, _, _)
BestTabSampleFrom(keys, k, best, samples) ==
  IF k > Len(keys) THEN best
  ELSE IF \/ Len(best) = 0
          \/ TabSampleCount(samples, keys[k]) > TabSampleCount(samples, best)
  THEN BestTabSampleFrom(keys, k + 1, keys[k], samples)
  ELSE BestTabSampleFrom(keys, k + 1, best, samples)

\* string.match(/"|'/): the first quote character, or none
QuoteMatch(str) ==
  LET at == { i \in 1..Len(str) : str[i] \in { Quote, "'" } }
  IN  IF at = { } THEN << >> ELSE << str[MinOf(at)] >>

\* utils.detectStyle(string), which starts from a copy of defaultStyle as
\* it is when the call is made
detectStyle(string, defaults) ==
  LET found     == NewLineMatch(string)
      newline   == IF Len(found) > 0 THEN found ELSE defaults.newline
      lines     == Split(string, newline)
      indent    == IndentOf(lines)
      tabSpaces == [ i \in 1..Len(lines) |->
                       TabSpaceOf(Slice(lines[i], Len(indent))) ]
      best      == BestTabLength(TabDifferences(tabSpaces))
      samples   == TabSamples(tabSpaces, best)
      sample    == BestTabSampleFrom(TabSampleKeys(samples), 1, << >>, samples)
      quote     == QuoteMatch(string)
  IN  [ tab             |-> IF Len(sample) > 0 THEN sample ELSE defaults.tab,
        newline         |-> newline,
        trailingNewline |-> IF Len(string) > 0 /\ EndsWith(string, newline)
                            THEN newline ELSE << >>,
        indent          |-> indent,
        quote           |-> IF Len(quote) > 0 THEN quote ELSE defaults.quote ]

\* ------------------------------------------------------------------------
\* toString and the style of a handle
\* ------------------------------------------------------------------------

\* The maps the serialized handles are constructed from
StyleMaps == { MapFlat, MapNested }

\* The styles the source texts are written in: tabs, four spaces inside a
\* margin of one space with Windows newlines, and all on one line
SourceStyles ==
  { [ tab |-> << TAB >>, newline |-> << LF >>, trailingNewline |-> << LF >>,
      indent |-> << >>, quote |-> << Quote >> ],
    [ tab |-> << " ", " ", " ", " " >>, newline |-> << CR, LF >>,
      trailingNewline |-> << >>, indent |-> << " " >>, quote |-> << Quote >> ],
    [ tab |-> << >>, newline |-> << >>, trailingNewline |-> << >>,
      indent |-> << >>, quote |-> << Quote >> ] }

\* The source texts a handle is constructed from, each with the value
\* JSON.parse gives for it
Sources ==
  { [ text |-> jsonStringifyStyled(m, st), json |-> m ] :
      m \in StyleMaps, st \in SourceStyles }

\* this.extend(map, true) in the constructor, on the empty map
NewMap(m) ==
  LET tm == extend([ baseUrl |-> envBaseUrl, imports |-> << >>,
                     scopes |-> << >>, depcache |-> << >> ], m, TRUE)
  IN  [ imports |-> tm.imports, scopes |-> tm.scopes, depcache |-> tm.depcache ]

\* Handles are numbered in the order they are constructed
Constructible(h) ==
  mapStyle[h] = "unset" /\ \A g \in Handles : g < h => mapStyle[g] # "unset"

\* new TraceMap(baseUrl, map) with an object: mapStyle stays the
\* initializer of the field, the object defaultStyle itself
ConstructFromObject(h) ==
  /\ Constructible(h)
  /\ \E m \in StyleMaps : maps' = [ maps EXCEPT ![h] = NewMap(m) ]
  /\ mapStyle' = [ mapStyle EXCEPT ![h] = "defaultStyle" ]
  /\ UNCHANGED << defaultStyle, detected, returned >>
  /\ UNCHANGED << mapVars, gateVars, traceVars >>

\* new TraceMap(baseUrl, map) with a string: mapStyle is the object
\* jsonParseStyled returns, made by detectStyle
ConstructFromString(h) ==
  /\ Constructible(h)
  /\ \E src \in Sources :
       /\ maps' = [ maps EXCEPT ![h] = NewMap(src.json) ]
       /\ detected' = [ detected EXCEPT ![h] = detectStyle(src.text, defaultStyle) ]
  /\ mapStyle' = [ mapStyle EXCEPT ![h] = "detected" ]
  /\ UNCHANGED << defaultStyle, returned >>
  /\ UNCHANGED << mapVars, gateVars, traceVars >>

\* The object this.mapStyle of the handle h refers to
StyleOf(h) == IF mapStyle[h] = "defaultStyle" THEN defaultStyle ELSE detected[h]

\* Object.assign(style, { indent: '', tab: '', newline: '' }): the object
\* it is given, with the three fields written
Minified(style) ==
  [ style EXCEPT !.indent = << >>, !.tab = << >>, !.newline = << >> ]

\* TraceMap.toString(minify)
ToStringCall(h, minify) ==
  /\ mapStyle[h] # "unset"
  /\ defaultStyle' = IF minify /\ mapStyle[h] = "defaultStyle"
                     THEN Minified(defaultStyle) ELSE defaultStyle
  /\ detected' = IF minify /\ mapStyle[h] = "detected"
                 THEN [ detected EXCEPT ![h] = Minified(@) ] ELSE detected
  /\ returned' = [ kind   |-> "call",
                   handle |-> h,
                   minify |-> minify,
                   text   |-> jsonStringifyStyled(
                                maps[h],
                                IF minify THEN Minified(StyleOf(h)) ELSE StyleOf(h)) ]
  /\ UNCHANGED << mapStyle, maps >>
  /\ UNCHANGED << mapVars, gateVars, traceVars >>

\* The module is loaded on a platform, no handle is constructed yet
InitStyle ==
  /\ baseUrl = RebasedUrl(BaseA)
  /\ imports = << >> /\ scopes = << >> /\ depcache = << >>
  /\ nCalls = 0
  /\ resolved = NotResolved
  /\ GateIdle
  /\ TraceIdle
  /\ \E eol \in EOLs : defaultStyle = DefaultStyleOn(eol)
  /\ mapStyle = [ h \in Handles |-> "unset" ]
  /\ detected = [ h \in Handles |-> NoStyle ]
  /\ maps = [ h \in Handles |-> EmptyMap ]
  /\ returned = NotReturned

\* Handles are constructed and serialized in any order
NextStyle ==
  \/ \E h \in Handles : ConstructFromObject(h)
  \/ \E h \in Handles : ConstructFromString(h)
  \/ \E h \in Handles, minify \in BOOLEAN : ToStringCall(h, minify)

SpecStyle == InitStyle /\ [][NextStyle]_vars

\* ------------------------------------------------------------------------
\* Claims about toString
\* ------------------------------------------------------------------------

\* What toString() without minify returns for the handle h
PlainText(h) == jsonStringifyStyled(maps[h], StyleOf(h))

\* C22: a call toString(true) leaves the style of every constructed handle
\* as it was: toString() returns the same text after the call as before
\* it, for the handle minified and for every other handle.
C22_MinifyKeepsStyles ==
  [][ \A h \in Handles :
        ToStringCall(h, TRUE) =>
          \A g \in Handles :
            mapStyle[g] # "unset" => PlainText(g)' = PlainText(g) ]_vars

=============================================================================
